---- MODULE Spec2Model ----
(***************************************************************************)
(* Model of the external-integration layer of outlivion-backend:           *)
(*   - MarzbanService (panel client): singleton construction, session      *)
(*     (accessToken, tokenExpiry), authenticate with retry/backoff, the    *)
(*     401 response interceptor, request with retry/backoff, and the       *)
(*     provisioning operations built on request;                           *)
(*   - MercuryoService (payment client): its singleton, createPayment and  *)
(*     getPaymentStatus, webhook verification and parsing.                 *)
(*                                                                         *)
(* JavaScript runs every handler to its next suspension point (an HTTP     *)
(* call in flight or a timer), so one action is one such run: from the     *)
(* event that resumes a task to the next await on the network or a timer.  *)
(* A task is a stack of frames; the top frame says what it is suspended    *)
(* on: an "http" frame is a call in flight, an "auth" or "request" frame   *)
(* is a backoff timer.                                                     *)
(***************************************************************************)
EXTENDS Integers, Sequences, FiniteSets, TLC

\* ---------------------------------------------------------------- bounds
NumThreads == 2
MaxFail == 3
Max401 == 2
MaxTicks == 1
NumCallers == 3
MaxResets == 1
MaxLen == 4
MaxPayload == 3
NumPayers == 2

\* ------------------------------------------------------ program constants
MAX_RETRIES == 3
RETRY_DELAY_MS == 1000
\* (the token's full lifetime, without the hour of margin)
TOKEN_TTL_24H == 24 * 60 * 60 * 1000

TOKEN_TTL == 23 * 60 * 60 * 1000

Null == 0

VARIABLES
  now,          \* Date.now()
  ticks,        \* number of idle periods that have passed
  clients,      \* the MarzbanService objects: accessToken, tokenExpiry, isInitialized
  threads,      \* the asynchronous activities (a request, or an initialisation)
  fails,        \* non-401 failures the remote has answered so far
  unauth,       \* 401 responses the remote has answered so far
  env,          \* process.env: the settings that are set (and not empty)
  instance,     \* MarzbanService.instance (Null or a client)
  initPromise,  \* MarzbanService.initPromise (Null or an initialisation)
  callers,      \* the callers of getInstance
  resets,       \* resetInstance calls so far
  wh,           \* one parseWebhook call: its arguments, its steps, its result
  vs,           \* one verifyWebhookSignature call: arguments, comparison, result
  mercuryoService,  \* the payment client singleton (Null or constructed)
  pay           \* the callers of the payment client

clientVars == <<now, ticks, clients, threads, fails, unauth>>
singletonVars == <<env, instance, initPromise, callers, resets>>
gatewayVars == <<wh, vs, mercuryoService, pay>>
vars == <<now, ticks, clients, threads, fails, unauth,
          env, instance, initPromise, callers, resets, wh, vs, mercuryoService, pay>>

\* The settings each client requires; a setting that is unset or empty is
\* absent from env.
PanelSettings == {"MARZBAN_URL", "MARZBAN_USERNAME", "MARZBAN_PASSWORD"}
MercuryoSettings == {"MERCURYO_API_KEY", "MERCURYO_SECRET", "MERCURYO_WEBHOOK_SECRET"}
Settings == PanelSettings \cup MercuryoSettings

\* (a check of the panel URL alone)
PanelUrlConfigured == "MARZBAN_URL" \in env

\* !config.url || !config.username || !config.password, negated
PanelConfigured == PanelSettings \subseteq env

\* !process.env.MERCURYO_API_KEY || ... || !process.env.MERCURYO_WEBHOOK_SECRET, negated
MercuryoConfigured == MercuryoSettings \subseteq env

Threads == 1..NumThreads
Clients == 1..NumThreads
Callers == 1..NumCallers

\* ----------------------------------------------------------------- errors
\* An error as the catch blocks see it: error.response?.status (0: no
\* response), error.code, and for the Error authenticate throws, the attempt
\* count and the message of the last error it cites.
NoErr == [status |-> 0, code |-> "none", attempts |-> 0, cause |-> "none"]

HttpError(s) ==
  [status |-> s, code |-> IF s >= 500 THEN "ERR_BAD_RESPONSE" ELSE "ERR_BAD_REQUEST",
   attempts |-> 0, cause |-> "none"]

TimeoutError == [status |-> 0, code |-> "ECONNABORTED", attempts |-> 0, cause |-> "none"]

NetworkError == [status |-> 0, code |-> "ERR_NETWORK", attempts |-> 0, cause |-> "none"]

\* What the remote can answer besides 200 and 401.
Failures == {HttpError(404), HttpError(500), TimeoutError, NetworkError}

\* new Error(message), as the provisioning wrappers throw it: no response,
\* no code.
WrappedError(msg) == [status |-> 0, code |-> "Error", attempts |-> 0, cause |-> msg]

Message(e) ==
  IF e.code = "Error" THEN e.cause
  ELSE IF e.attempts > 0 THEN "auth-failed"
  ELSE IF e.status > 0 THEN ToString(e.status) ELSE e.code

AuthError(retries, e) ==
  [status |-> 0, code |-> "none", attempts |-> retries, cause |-> Message(e)]

\* (a retry of every failure that carries a response)
IsRetryableAnyStatus(e) == e.status > 0 \/ e.code = "ECONNABORTED"

\* error.response?.status >= 500 || error.code === 'ECONNABORTED'
IsRetryable(e) == e.status >= 500 \/ e.code = "ECONNABORTED"

\* (a backoff that does not grow)
DelayFixed(attempt) == RETRY_DELAY_MS

\* RETRY_DELAY_MS * Math.pow(2, attempt - 1)
Delay(attempt) == RETRY_DELAY_MS * 2 ^ (attempt - 1)

\* ----------------------------------------------------------------- frames
\* The session a client holds: this.accessToken and this.tokenExpiry.
Session(c) == [accessToken |-> c.accessToken, tokenExpiry |-> c.tokenExpiry]

NoSession == [accessToken |-> Null, tokenExpiry |-> 0]

\* A frame of an activity; an authenticate frame also remembers the session
\* its client held when the run began (before).
Frame(f, by, target) ==
  [f |-> f, attempt |-> 1, by |-> by, target |-> target, replays |-> 0,
   calls |-> 0, delays |-> <<>>, before |-> NoSession]

Top(s) == s[Len(s)]
Pop(s) == SubSeq(s, 1, Len(s) - 1)

\* The last authenticate run an activity finished: who called it, how it
\* ended, whether its client held the same session at its end as when it
\* began (kept), and whether that session was absent or expired at its end
\* (invalid).
NoAuth == [by |-> "none", outcome |-> "none", attempts |-> 0, delays |-> <<>>,
           calls |-> 0, kept |-> TRUE, invalid |-> TRUE]

\* The arguments of a provisioning operation, and the result of one.
NoArgs == [op |-> "none", username |-> "", host |-> "", port |-> 0]
\* A panel account as the operations use it: its username and its proxy
\* identity (proxies.vless?.id; "" when there is none).
NoAccount == [username |-> "", id |-> ""]

\* What an operation returns or throws: an account, a boolean, a URI,
\* nothing (void), or an error.
NoOut == [kind |-> "none", account |-> NoAccount, bool |-> FALSE, url |-> "", err |-> NoErr]
AccountOut(a) == [NoOut EXCEPT !.kind = "account", !.account = a]
BoolOut(b) == [NoOut EXCEPT !.kind = "bool", !.bool = b]
UrlOut(u) == [NoOut EXCEPT !.kind = "url", !.url = u]
VoidOut == [NoOut EXCEPT !.kind = "void"]
ErrorOut(e) == [NoOut EXCEPT !.kind = "error", !.err = e]
NoFetch == [gets |-> 0, err |-> NoErr]

\* An activity: a call of request() (or an initialisation), the provisioning
\* operations that called it (op: outermost first), and what has been
\* observed of it: HTTP calls sent (apiCalls; gets: those with method GET),
\* createUser invocations (creates), the failed fetch of a getOrCreateUser
\* (fetch), the response.data of the call that succeeded (answer), and what
\* the outermost operation returned or threw (out).
IdleThread ==
  [st |-> "idle", client |-> 0, stack |-> <<>>, res |-> "none", err |-> NoErr,
   entryValid |-> TRUE, ensured |-> "none", apiCalls |-> 0, firstValid |-> TRUE,
   attempts |-> 0, delays |-> <<>>, lastOutcome |-> "none", lastErr |-> NoErr,
   lastAuth |-> NoAuth,
   runs |-> 0, value |-> Null,
   op |-> <<>>, args |-> NoArgs, gets |-> 0, creates |-> 0, fetch |-> NoFetch,
   answer |-> NoAccount, out |-> NoOut]

NewClient == [accessToken |-> Null, tokenExpiry |-> 0, isInitialized |-> FALSE]

\* The session as the data model defines it.
SessionValid(c, t) == c.accessToken # Null /\ t < c.tokenExpiry

\* response.data.access_token: the panel issues a token that differs from the
\* one the client holds.
NextToken(tok) == IF tok = 1 THEN 2 ELSE 1

\* (a success that stores the credential and leaves the expiry as it was)
StoreTokenOnly(c, tok, t) == [c EXCEPT !.accessToken = tok]

\* authenticate() on success: this.accessToken = response.data.access_token;
\* this.tokenExpiry = Date.now() + 23 * 60 * 60 * 1000
StoreSession(c, tok, t) == [c EXCEPT !.accessToken = tok, !.tokenExpiry = t + TOKEN_TTL]

\* (an expiry check that is off by one instant)
NeedsAuthAfterExpiry(c, t) == c.accessToken = Null \/ t > c.tokenExpiry

\* ensureAuthenticated's condition
NeedsAuth(c, t) == c.accessToken = Null \/ t >= c.tokenExpiry

\* Every authenticate invocation still running counts a token exchange sent
\* on its behalf.
CountCall(s) ==
  [i \in DOMAIN s |-> IF s[i].f = "auth" THEN [s[i] EXCEPT !.calls = @ + 1] ELSE s[i]]

\* this.client.post('/api/admin/token', ...)
PostToken(s) == Append(CountCall(s), Frame("http", "", "token"))

\* authenticate(): the first iteration of its loop, up to the await
Authenticate(s, by, session) ==
  PostToken(Append(s, [Frame("auth", by, "") EXCEPT !.before = Session(session)]))

\* The method request() is called with by the operation that calls it.
Method(th) ==
  IF th.op = <<>> THEN "get"
  ELSE CASE Top(th.op) = "getUser" -> "get"
         [] Top(th.op) = "createUser" -> "post"
         [] Top(th.op) = "updateUser" -> "put"
         [] OTHER -> "delete"

\* this.client[method](endpoint, data) of request's attempt number n
CallApi(th, n, valid) ==
  [th EXCEPT !.stack = Append(Pop(@) \o <<[Top(@) EXCEPT !.attempt = n]>>,
                              Frame("http", "", "api")),
             !.apiCalls = @ + 1,
             !.gets = IF Method(th) = "get" THEN @ + 1 ELSE @,
             !.attempts = n,
             !.firstValid = IF th.apiCalls = 0 THEN valid ELSE @]

\* The interceptor's `return this.client.request(error.config)`: the call on
\* top of the stack is sent again.
Replay(th) ==
  LET h == Top(th.stack) IN
  IF h.target = "token"
  THEN [th EXCEPT !.stack = Append(CountCall(Pop(@)), [h EXCEPT !.replays = @ + 1])]
  ELSE [th EXCEPT !.stack = Append(Pop(@), [h EXCEPT !.replays = @ + 1]),
                  !.apiCalls = @ + 1,
                  !.gets = IF Method(th) = "get" THEN @ + 1 ELSE @]

\* An error e is thrown into the top frame of th; it unwinds the
\* stack until a catch block goes to sleep or the activity ends.
RECURSIVE Throw(_, _)
Throw(th, e) ==
  IF th.stack = <<>>
  THEN [th EXCEPT !.st = "done", !.res = "error", !.err = e]
  ELSE
    LET top == Top(th.stack)
        rest == Pop(th.stack)
    IN
    CASE top.f = "http" ->
           \* the interceptor's await this.authenticate() threw: the call rejects
           Throw([th EXCEPT !.stack = rest], e)
      [] top.f = "auth" ->
           IF top.attempt = MAX_RETRIES
           THEN Throw([th EXCEPT !.stack = rest,
                                 !.ensured = IF top.by = "ensure" THEN "failed" ELSE @,
                                 !.lastAuth = [by |-> top.by, outcome |-> "failed",
                                               attempts |-> top.attempt,
                                               delays |-> top.delays,
                                               calls |-> top.calls,
                                               kept |-> Session(clients[th.client]) = top.before,
                                               invalid |-> NeedsAuth(clients[th.client], now)]],
                      AuthError(MAX_RETRIES, e))
           ELSE [th EXCEPT !.stack =
                   Append(rest, [top EXCEPT !.delays = Append(@, Delay(top.attempt))])]
      [] top.f = "request" ->
           IF top.attempt = 0
           THEN \* await this.ensureAuthenticated() threw: outside the try
                Throw([th EXCEPT !.stack = rest], e)
           ELSE IF top.attempt = MAX_RETRIES \/ ~IsRetryable(e)
           THEN Throw([th EXCEPT !.stack = rest, !.lastOutcome = "failed", !.lastErr = e], e)
           ELSE [th EXCEPT !.delays = Append(@, Delay(top.attempt)),
                           !.lastOutcome = "failed", !.lastErr = e]
      [] OTHER ->
           \* initialize() and the initialisation's async function reject
           Throw([th EXCEPT !.stack = rest], e)

\* ---------------------------------------------------------------- actions
InFlight(t) ==
  /\ threads[t].st = "run"
  /\ threads[t].stack # <<>>
  /\ Top(threads[t].stack).f = "http"

Sleeping(t) ==
  /\ threads[t].st = "run"
  /\ threads[t].stack # <<>>
  /\ Top(threads[t].stack).f \in {"auth", "request"}

\* request() on client c (session: its fields) at time t0, up to its first
\* await on the network: ensureAuthenticated, then the first attempt.
Begin(th0, c, session, t0) ==
  LET th == [th0 EXCEPT !.st = "run", !.client = c,
                        !.entryValid = SessionValid(session, t0)]
  IN IF NeedsAuth(session, t0)
     THEN [th EXCEPT !.stack = Authenticate(<<[Frame("request", "", "") EXCEPT !.attempt = 0]>>,
                                            "ensure", session),
                     !.runs = @ + 1]
     ELSE CallApi([th EXCEPT !.stack = <<Frame("request", "", "")>>], 1,
                  SessionValid(session, t0))

\* The operations each provisioning operation is made of, outermost first;
\* the innermost one calls request().
Chain(op) ==
  CASE op = "userExists" -> <<"userExists", "getUser">>
    [] op = "getVlessConfig" -> <<"getVlessConfig", "getUser">>
    [] op = "extendSubscription" -> <<"extendSubscription", "updateUser">>
    [] op = "getOrCreateUser" -> <<"getOrCreateUser", "getUser">>
    [] OTHER -> <<op>>

Operations ==
  {"createUser", "updateUser", "getUser", "deleteUser", "userExists",
   "getVlessConfig", "extendSubscription", "getOrCreateUser"}

\* (a URI whose sni names the port instead of the host)
VlessUrlSniPort(vlessId, serverHost, serverPort, username) ==
  "vless://" \o vlessId \o "@" \o serverHost \o ":" \o ToString(serverPort)
    \o "?encryption=none&flow=xtls-rprx-vision&security=tls&sni=" \o ToString(serverPort)
    \o "&type=tcp&headerType=none#" \o username

\* `vless://${vlessId}@${serverHost}:${serverPort}?...&sni=${serverHost}&...#${username}`
VlessUrl(vlessId, serverHost, serverPort, username) ==
  "vless://" \o vlessId \o "@" \o serverHost \o ":" \o ToString(serverPort)
    \o "?encryption=none&flow=xtls-rprx-vision&security=tls&sni=" \o serverHost
    \o "&type=tcp&headerType=none#" \o username

\* (a getUser that reports every failure alike)
GetUserErrorGeneric(username, e) ==
  WrappedError("Failed to get Marzban user: " \o Message(e))

\* getUser's catch block
GetUserError(username, e) ==
  IF e.status = 404
  THEN WrappedError("Marzban user not found: " \o username)
  ELSE WrappedError("Failed to get Marzban user: " \o Message(e))

\* The catch blocks that rethrow with the operation's context.
Rethrow(op, username, e) ==
  CASE op = "getUser" -> GetUserError(username, e)
    [] op = "createUser" -> WrappedError("Failed to create Marzban user: " \o Message(e))
    [] op = "updateUser" -> WrappedError("Failed to update Marzban user: " \o Message(e))
    [] op = "deleteUser" -> WrappedError("Failed to delete Marzban user: " \o Message(e))
    [] op = "getVlessConfig" -> WrappedError("Failed to get VLESS config: " \o Message(e))
    [] op = "extendSubscription" -> WrappedError("Failed to extend subscription: " \o Message(e))
    [] OTHER -> e

\* (a userExists that lets the failure through)
UserExistsRethrow(th, e) == [th EXCEPT !.st = "done", !.res = "error", !.err = e,
                                       !.op = <<>>, !.out = ErrorOut(e)]

\* userExists' catch block: return false
UserExistsCatch(th, e) == [th EXCEPT !.st = "done", !.res = "ok", !.err = NoErr,
                                     !.op = <<>>, !.out = BoolOut(FALSE)]

\* (a getOrCreateUser that fetches once more before it creates)
FetchAgain(th, e, c, session, t0) ==
  Begin([IdleThread EXCEPT !.op = Pop(th.op) \o <<"getOrCreateUser", "getUser">>,
                           !.args = th.args, !.gets = th.gets,
                           !.creates = th.creates,
                           !.fetch = [gets |-> th.gets, err |-> e]],
        c, session, t0)

\* getOrCreateUser's catch block: return await this.createUser(...), up to
\* the first await of createUser's request()
CreateInstead(th, e, c, session, t0) ==
  Begin([IdleThread EXCEPT !.op = Pop(th.op) \o <<"getOrCreateUser:catch", "createUser">>,
                           !.args = th.args, !.gets = th.gets,
                           !.creates = th.creates + 1,
                           !.fetch = [gets |-> th.gets, err |-> e]],
        c, session, t0)

\* (catch blocks that return nothing instead of throwing)
RaiseSwallowed(th, e, session, t0) ==
  [th EXCEPT !.st = "done", !.res = "ok", !.err = NoErr, !.op = <<>>, !.out = VoidOut]

\* The innermost operation of th throws e: the error goes up through the
\* catch blocks of the operations until one handles it or the outermost
\* operation has thrown.
RECURSIVE Raise(_, _, _, _)
Raise(th, e, session, t0) ==
  IF th.op = <<>>
  THEN [th EXCEPT !.st = "done", !.res = "error", !.err = e, !.out = ErrorOut(e)]
  ELSE
    LET op == Top(th.op)
        up == [th EXCEPT !.op = Pop(@)]
    IN CASE op = "userExists" -> UserExistsCatch(th, e)
         [] op = "getOrCreateUser" -> CreateInstead(th, e, th.client, session, t0)
         [] OTHER -> Raise(up, Rethrow(op, th.args.username, e), session, t0)

\* The innermost operation of th returns v: the value goes up through the
\* operations to the caller.
RECURSIVE Return(_, _, _, _)
Return(th, v, session, t0) ==
  IF th.op = <<>>
  THEN [th EXCEPT !.st = "done", !.res = "ok", !.err = NoErr, !.out = v]
  ELSE
    LET op == Top(th.op)
        up == [th EXCEPT !.op = Pop(@)]
    IN CASE op = "userExists" -> Return(up, BoolOut(TRUE), session, t0)
         [] op \in {"deleteUser", "extendSubscription"} -> Return(up, VoidOut, session, t0)
         [] op = "getVlessConfig" ->
              IF v.account.id = ""
              THEN \* throw new Error('VLESS ID not found for user'), inside the try
                   Raise(th, WrappedError("VLESS ID not found for user"), session, t0)
              ELSE Return(up, UrlOut(VlessUrl(v.account.id, th.args.host, th.args.port,
                                              th.args.username)), session, t0)
         [] OTHER -> Return(up, v, session, t0)

\* response.data of a provisioning call that succeeds
ProxyIds == {"", "abc-123"}

Responses(th) ==
  IF th.op = <<>> \/ Method(th) = "delete" THEN {NoAccount}
  ELSE {[username |-> th.args.username, id |-> i] : i \in ProxyIds}

\* The arguments the operations are called with.
Arguments ==
  [op : Operations, username : {"alice", "bob"}, host : {"vpn.example.com"}, port : {443}]

\* A provisioning operation is called, up to the first await on the
\* network of its request().
OpStart(t, args) ==
  /\ \A u \in Threads : threads[u].st = "idle"
  /\ threads' = [threads EXCEPT ![t] =
       Begin([@ EXCEPT !.op = Chain(args.op), !.args = args,
                       !.creates = IF args.op = "createUser" THEN 1 ELSE 0],
             1, clients[1], now)]
  /\ UNCHANGED <<now, ticks, clients, fails, unauth>>
  /\ UNCHANGED <<singletonVars, gatewayVars>>

\* request(), called on its own
RequestStart(t, c) ==
  /\ threads[t].st = "idle"
  /\ threads' = [threads EXCEPT ![t] = Begin(@, c, clients[c], now)]
  /\ UNCHANGED <<now, ticks, clients, fails, unauth>>
  /\ UNCHANGED <<singletonVars, gatewayVars>>

\* The token exchange answers 200: authenticate stores the session and
\* returns to whoever called it.
TokenOk(t) ==
  /\ InFlight(t)
  /\ Top(threads[t].stack).target = "token"
  /\ LET th == threads[t]
         a == Top(Pop(th.stack))
         below == Pop(Pop(th.stack))
         stored == StoreSession(clients[th.client], NextToken(clients[th.client].accessToken), now)
         done == [th EXCEPT !.stack = below,
                            !.ensured = IF a.by = "ensure" THEN "ok" ELSE @,
                            !.lastAuth = [by |-> a.by, outcome |-> "ok",
                                          attempts |-> a.attempt, delays |-> a.delays,
                                          calls |-> a.calls,
                                          kept |-> Session(stored) = a.before,
                                          invalid |-> NeedsAuth(stored, now)]]
         \* initialize(): this.isInitialized = true
         session == [stored EXCEPT !.isInitialized = IF a.by = "initialize" THEN TRUE ELSE @]
     IN /\ clients' = [clients EXCEPT ![th.client] = session]
        /\ threads' = [threads EXCEPT ![t] =
             CASE a.by = "ensure" -> CallApi(done, 1, SessionValid(session, now))
               [] a.by = "interceptor" -> Replay(done)
               [] OTHER -> [done EXCEPT !.stack = <<[Top(below) EXCEPT !.by = "initialized"]>>]]
  /\ UNCHANGED <<now, ticks, fails, unauth>>
  /\ UNCHANGED <<singletonVars, gatewayVars>>

\* The provisioning call answers 2xx: request returns response.data, and
\* the operations that called it return in turn.
ApiOk(t) ==
  /\ InFlight(t)
  /\ Top(threads[t].stack).target = "api"
  /\ \E d \in Responses(threads[t]) :
       threads' = [threads EXCEPT ![t] =
         Return([@ EXCEPT !.stack = <<>>, !.lastOutcome = "ok", !.answer = d], AccountOut(d),
                clients[threads[t].client], now)]
  /\ UNCHANGED <<now, ticks, clients, fails, unauth>>
  /\ UNCHANGED <<singletonVars, gatewayVars>>

\* Any call on this.client answers 401: the response interceptor calls
\* authenticate().
Unauthorized(t) ==
  /\ InFlight(t)
  /\ unauth < Max401
  /\ unauth' = unauth + 1
  /\ threads' = [threads EXCEPT ![t].stack = Authenticate(@, "interceptor",
                                                           clients[threads[t].client]),
                                ![t].runs = @ + 1]
  /\ UNCHANGED <<now, ticks, clients, fails>>
  /\ UNCHANGED <<singletonVars, gatewayVars>>

\* Any call on this.client fails otherwise: the interceptor rethrows, and
\* the catch blocks on the way up run.
Fail(t, e) ==
  /\ InFlight(t)
  /\ fails < MaxFail
  /\ fails' = fails + 1
  /\ LET th == Throw([threads[t] EXCEPT !.stack = Pop(@)], e) IN
     threads' = [threads EXCEPT ![t] =
       IF th.st = "done" THEN Raise(th, th.err, clients[th.client], now) ELSE th]
  /\ UNCHANGED <<now, ticks, clients, unauth>>
  /\ UNCHANGED <<singletonVars, gatewayVars>>

\* The backoff timer fires: the next iteration of the loop. The clock is not
\* tied to the timers: the delay a loop asks for is recorded, and any amount
\* of time (Tick) may pass while it sleeps.
Wake(t) ==
  /\ Sleeping(t)
  /\ LET th == threads[t]
         top == Top(th.stack)
     IN /\ threads' = [threads EXCEPT ![t] =
             IF top.f = "auth"
             THEN [th EXCEPT !.stack = PostToken(Append(Pop(@), [top EXCEPT !.attempt = @ + 1]))]
             ELSE CallApi(th, top.attempt + 1, SessionValid(clients[th.client], now))]
  /\ UNCHANGED <<now, ticks, clients, fails, unauth>>
  /\ UNCHANGED <<singletonVars, gatewayVars>>

\* Time passes: just under, or exactly, the lifetime a session is given.
TickSteps == {TOKEN_TTL - 1, TOKEN_TTL}

Tick(d) ==
  /\ ticks < MaxTicks
  /\ ticks' = ticks + 1
  /\ now' = now + d
  /\ UNCHANGED <<clients, threads, fails, unauth>>
  /\ UNCHANGED <<singletonVars, gatewayVars>>

\* ------------------------------------------------- singleton construction
\* The k-th initialisation (the async function getInstance stores in
\* initPromise) runs as activity k on client k; its promise is pending while
\* the activity runs, and settles with the activity's result.
ConfigError == [status |-> 0, code |-> "config-missing", attempts |-> 0, cause |-> "none"]

Settled(k) == threads[k].st = "done"

\* Initialisation k has rejected with the error authenticate throws once
\* its attempts are exhausted.
FailedInit(k) ==
  /\ threads[k].st = "done"
  /\ threads[k].res = "error"
  /\ threads[k].err.attempts = MAX_RETRIES

\* The initialisations that have failed so far.
FailedInits == {k \in Threads : FailedInit(k)}

\* A caller of getInstance: where it is, the initialisation it awaits, what
\* it got, how many resetInstance calls had been made when it got it, and
\* the initialisations that had failed when it called.
IdleCaller ==
  [pc |-> "idle", prom |-> Null, res |-> "none", value |-> Null, epoch |-> 0,
   failed |-> {}]

Unused == {k \in Threads : threads[k].st = "idle"}

\* getInstance() up to its first await
GetInstance(p) ==
  /\ callers[p].pc = "idle"
  /\ IF instance # Null /\ clients[instance].isInitialized
     THEN /\ callers' = [callers EXCEPT ![p] =
                [pc |-> "done", prom |-> Null, res |-> "ok", value |-> instance,
                 epoch |-> resets, failed |-> FailedInits]]
          /\ UNCHANGED <<instance, initPromise, threads>>
     ELSE IF initPromise # Null
     THEN /\ callers' = [callers EXCEPT ![p] = [@ EXCEPT !.pc = "joined", !.prom = initPromise,
                                                    !.failed = FailedInits]]
          /\ UNCHANGED <<instance, initPromise, threads>>
     ELSE /\ Unused # {}
          /\ LET k == CHOOSE i \in Unused : \A j \in Unused : i <= j IN
             /\ initPromise' = k
             /\ callers' = [callers EXCEPT ![p] = [@ EXCEPT !.pc = "owner", !.prom = k,
                                                            !.failed = FailedInits]]
             /\ IF PanelConfigured
                THEN /\ instance' = k
                     /\ threads' = [threads EXCEPT ![k] =
                          [@ EXCEPT !.st = "run", !.client = k, !.runs = 1,
                                    !.stack = Authenticate(<<Frame("init", "", "")>>,
                                                           "initialize", NewClient)]]
                ELSE /\ instance' = instance
                     /\ threads' = [threads EXCEPT ![k] =
                          [@ EXCEPT !.st = "done", !.res = "error", !.err = ConfigError]]
  /\ UNCHANGED <<now, ticks, clients, fails, unauth, env, resets, gatewayVars>>

\* resetInstance()
ResetInstance ==
  /\ resets < MaxResets
  /\ resets' = resets + 1
  /\ instance' = Null
  /\ initPromise' = Null
  /\ UNCHANGED <<clientVars, env, callers, gatewayVars>>

\* The initialisation resumes after `await instance.initialize()` and
\* returns MarzbanService.instance.
InitReturn(k) ==
  /\ threads[k].st = "run"
  /\ threads[k].stack # <<>>
  /\ Top(threads[k].stack).f = "init"
  /\ Top(threads[k].stack).by = "initialized"
  /\ threads' = [threads EXCEPT ![k] =
       [@ EXCEPT !.st = "done", !.stack = <<>>, !.res = "ok", !.value = instance]]
  /\ UNCHANGED <<now, ticks, clients, fails, unauth, singletonVars, gatewayVars>>

\* The caller that started the initialisation resumes from
\* `await MarzbanService.initPromise`; its finally block clears initPromise.
OwnerResume(p) ==
  /\ callers[p].pc = "owner"
  /\ Settled(callers[p].prom)
  /\ initPromise' = Null
  /\ callers' = [callers EXCEPT ![p] =
       [@ EXCEPT !.pc = "done", !.res = threads[callers[p].prom].res,
                 !.value = threads[callers[p].prom].value, !.epoch = resets]]
  /\ UNCHANGED <<clientVars, env, instance, resets, gatewayVars>>

\* A caller that returned the pending initPromise gets what it settles with.
JoinedResume(p) ==
  /\ callers[p].pc = "joined"
  /\ Settled(callers[p].prom)
  /\ callers' = [callers EXCEPT ![p] =
       [@ EXCEPT !.pc = "done", !.res = threads[callers[p].prom].res,
                 !.value = threads[callers[p].prom].value, !.epoch = resets]]
  /\ UNCHANGED <<clientVars, env, instance, initPromise, resets, gatewayVars>>

\* -------------------------------------------------------------- webhooks
\* No notification is being handled.
NoWebhook == [phase |-> "none"]

\* A body is a string of characters or an already-structured settlement
\* record; JSON is cut down to the objects {id, status} written "{is}" with
\* one digit per field.
Chars == {"{", "}", "0", "1"}
Keys == 1..2

Strings == UNION {[1..n -> Chars] : n \in 0..MaxLen}
Records == [id : 0..1, status : 0..1]
NoRecord == [id |-> -1, status |-> -1]

StringBody(s) == [isString |-> TRUE, text |-> s, obj |-> NoRecord]
RecordBody(o) == [isString |-> FALSE, text |-> <<>>, obj |-> o]
Bodies == {StringBody(s) : s \in Strings} \cup {RecordBody(o) : o \in Records}

DigitChar(d) == IF d = 0 THEN "0" ELSE "1"
DigitValue(ch) == IF ch = "0" THEN 0 ELSE 1

\* JSON.stringify
JsonStringify(o) == <<"{", DigitChar(o.id), DigitChar(o.status), "}">>

\* JSON.parse: the record, or a SyntaxError
JsonParse(s) ==
  IF /\ Len(s) = Len(JsonStringify(NoRecord))
     /\ s[1] = "{"
     /\ s[2] \in {"0", "1"}
     /\ s[3] \in {"0", "1"}
     /\ s[4] = "}"
  THEN [ok |-> TRUE, obj |-> [id |-> DigitValue(s[2]), status |-> DigitValue(s[3])]]
  ELSE [ok |-> FALSE, obj |-> NoRecord]

\* A payload handed to verifyWebhookSignature is any string: besides the
\* characters above it may hold UTF-16 surrogates that pair with nothing.
Surrogates == {"<D800>", "<D801>"}
PayloadChars == Chars \cup Surrogates

\* update(payload) hashes the UTF-8 encoding of the string: every character
\* has a code of its own, except that an unpaired surrogate is encoded as the
\* replacement character U+FFFD.
CharCode(ch) ==
  CASE ch = "{" -> 1 [] ch = "}" -> 2 [] ch = "0" -> 3 [] ch = "1" -> 4 [] OTHER -> 5

Utf8(s) == [i \in DOMAIN s |-> CharCode(s[i])]

RECURSIVE Encode(_)
Encode(s) == IF s = <<>> THEN 0 ELSE Encode(Pop(s)) * Cardinality(PayloadChars) + CharCode(Top(s))

\* crypto.createHmac('sha256', key).update(payload): a keyed digest without
\* collisions on the payloads and keys of the model.
HmacSha256(key, payload) == Encode(payload) * (Cardinality(Keys) + 1) + key

HexChars == <<"0", "1", "2", "3", "4", "5", "6", "7", "8", "9", "a", "b", "c", "d", "e", "f">>

\* .digest('hex')
RECURSIVE DigestHex(_)
DigestHex(n) ==
  IF n < Len(HexChars) THEN <<HexChars[n + 1]>>
  ELSE Append(DigestHex(n \div Len(HexChars)), HexChars[(n % Len(HexChars)) + 1])

\* verifyWebhookSignature(payload, signature)
VerifyWebhookSignature(secret, payload, signature) ==
  DigestHex(HmacSha256(secret, payload)) = signature

\* (a parseWebhook that decodes the body first and verifies afterwards)
ParseBeforeVerify(secret, body, signature) ==
  LET payload == IF body.isString THEN body.text ELSE JsonStringify(body.obj)
      parsed == IF body.isString THEN JsonParse(body.text) ELSE [ok |-> TRUE, obj |-> body.obj]
      ops == IF body.isString THEN <<"parse", "verify">> ELSE <<"stringify", "verify">>
  IN IF ~parsed.ok
     THEN [ops |-> <<"parse">>, res |-> "error", err |-> "SyntaxError", data |-> NoRecord]
     ELSE IF ~VerifyWebhookSignature(secret, payload, signature)
     THEN [ops |-> ops, res |-> "error", err |-> "Invalid webhook signature", data |-> NoRecord]
     ELSE [ops |-> ops, res |-> "ok", err |-> "none", data |-> parsed.obj]

\* parseWebhook(body, signature): the operations it performs, in order, and
\* what it returns or throws.
ParseWebhookRun(secret, body, signature) ==
  LET payload == IF body.isString THEN body.text ELSE JsonStringify(body.obj)
      ops1 == IF body.isString THEN <<>> ELSE <<"stringify">>
      ops2 == Append(ops1, "verify")
  IN IF ~VerifyWebhookSignature(secret, payload, signature)
     THEN [ops |-> ops2, res |-> "error", err |-> "Invalid webhook signature", data |-> NoRecord]
     ELSE IF body.isString
     THEN LET parsed == JsonParse(body.text) IN
          IF parsed.ok
          THEN [ops |-> Append(ops2, "parse"), res |-> "ok", err |-> "none", data |-> parsed.obj]
          ELSE [ops |-> Append(ops2, "parse"), res |-> "error", err |-> "SyntaxError",
                data |-> NoRecord]
     ELSE [ops |-> ops2, res |-> "ok", err |-> "none", data |-> body.obj]

ParseWebhook ==
  /\ wh.phase = "called"
  /\ LET r == ParseWebhookRun(wh.secret, wh.body, wh.signature) IN
     wh' = [wh EXCEPT !.phase = "done", !.ops = r.ops, !.res = r.res, !.err = r.err,
                      !.data = r.data]
  /\ UNCHANGED <<clientVars, singletonVars, vs, mercuryoService, pay>>

\* The signatures a sender may present with a body: the right one, one made
\* with another key, one made for another payload, or none.
Payload(body) == IF body.isString THEN body.text ELSE JsonStringify(body.obj)

Signatures(body) ==
  {DigestHex(HmacSha256(k, Payload(body))) : k \in Keys}
    \cup {DigestHex(HmacSha256(k, q)) : k \in Keys, q \in {s \in Strings : Len(s) <= 1}}
    \cup {<<>>}

\* No signature is being verified.
NoVerify == [phase |-> "none"]

Payloads == UNION {[1..n -> PayloadChars] : n \in 0..MaxPayload}

\* a === b on strings: the result, and the number of character comparisons
\* made. Strings of different lengths differ at once. For strings of one
\* length the language fixes the result only; an engine compares from the
\* front and may stop at the first difference or scan to the end.
StrictEquals(a, b) ==
  IF Len(a) # Len(b) THEN { [eq |-> FALSE, steps |-> 0] }
  ELSE LET diff == {i \in DOMAIN a : a[i] # b[i]} IN
       IF diff = {} THEN { [eq |-> TRUE, steps |-> Len(a)] }
       ELSE { [eq |-> FALSE, steps |-> n] :
                n \in {CHOOSE i \in diff : \A j \in diff : i <= j, Len(a)} }

\* (a comparison of the characters the signature has, and no more)
VerifyPrefixRun(secret, payload, signature) ==
  LET calculatedSignature == DigestHex(HmacSha256(secret, payload)) IN
  { [eq |-> /\ Len(signature) <= Len(calculatedSignature)
            /\ SubSeq(calculatedSignature, 1, Len(signature)) = signature,
     steps |-> Len(signature)] }

\* verifyWebhookSignature(payload, signature): calculatedSignature === signature
VerifyRun(secret, payload, signature) ==
  StrictEquals(DigestHex(HmacSha256(secret, payload)), signature)

VerifySignature ==
  /\ vs.phase = "called"
  /\ \E r \in VerifyRun(vs.secret, vs.payload, vs.signature) :
       vs' = [vs EXCEPT !.phase = "done", !.res = r.eq, !.steps = r.steps]
  /\ UNCHANGED <<clientVars, singletonVars, wh, mercuryoService, pay>>

\* The hex digit after h.
NextHex(h) ==
  LET i == CHOOSE k \in DOMAIN HexChars : HexChars[k] = h IN HexChars[(i % Len(HexChars)) + 1]

\* The signatures presented with a payload: the right one, the one made with
\* the other key, the right one with one digit changed, the right one cut
\* short by a digit, or none.
Presented(secret, payload) ==
  LET right == DigestHex(HmacSha256(secret, payload)) IN
  {DigestHex(HmacSha256(k, payload)) : k \in Keys}
    \cup {[right EXCEPT ![i] = NextHex(@)] : i \in DOMAIN right}
    \cup {Pop(right), <<>>}

\* ---------------------------------------------------------- payment client
Payers == 1..NumPayers

\* A caller of the payment client: the client it has obtained, the
\* operation it has invoked, the HTTP calls sent for it, what the gateway
\* answered and what the operation returned or threw.
IdlePayer ==
  [st |-> "idle", svc |-> Null, op |-> "none", calls |-> 0, answer |-> Null,
   res |-> "none", value |-> Null, err |-> "none"]

\* What the gateway can answer besides 2xx; its client has no interceptor,
\* so a 401 is a failure like any other.
GatewayFailures == {HttpError(401), HttpError(500), TimeoutError}

\* response.data of the gateway
PaymentResponses == 1..2

\* getMercuryoService()
GetMercuryoService(i) ==
  /\ pay[i].st = "idle"
  /\ pay[i].svc = Null
  /\ IF mercuryoService # Null
     THEN /\ pay' = [pay EXCEPT ![i].svc = mercuryoService]
          /\ UNCHANGED mercuryoService
     ELSE IF ~MercuryoConfigured
     THEN /\ pay' = [pay EXCEPT ![i] = [@ EXCEPT !.st = "done", !.op = "getMercuryoService",
                                                  !.res = "error",
                                                  !.err = "Mercuryo configuration is missing"]]
          /\ UNCHANGED mercuryoService
     ELSE /\ mercuryoService' = 1
          /\ pay' = [pay EXCEPT ![i].svc = 1]
  /\ UNCHANGED <<clientVars, singletonVars, wh, vs>>

\* createPayment(params), up to `await this.client.post('/v1.6/payment', ...)`
CreatePayment(i) ==
  /\ pay[i].st = "idle"
  /\ pay[i].svc # Null
  /\ pay' = [pay EXCEPT ![i] = [@ EXCEPT !.st = "flight", !.op = "createPayment",
                                         !.calls = @ + 1]]
  /\ UNCHANGED <<clientVars, singletonVars, wh, vs, mercuryoService>>

\* getPaymentStatus(paymentId), up to `await this.client.get(...)`
GetPaymentStatus(i) ==
  /\ pay[i].st = "idle"
  /\ pay[i].svc # Null
  /\ pay' = [pay EXCEPT ![i] = [@ EXCEPT !.st = "flight", !.op = "getPaymentStatus",
                                         !.calls = @ + 1]]
  /\ UNCHANGED <<clientVars, singletonVars, wh, vs, mercuryoService>>

\* The gateway answers 2xx: return response.data
PaymentOk(i, d) ==
  /\ pay[i].st = "flight"
  /\ pay' = [pay EXCEPT ![i] = [@ EXCEPT !.st = "done", !.answer = d, !.res = "ok",
                                         !.value = d]]
  /\ UNCHANGED <<clientVars, singletonVars, wh, vs, mercuryoService>>

\* (a catch block that sends the call again after a server error or timeout)
PaymentRetry(p, e) ==
  IF IsRetryable(e) /\ p.calls < MAX_RETRIES
  THEN [p EXCEPT !.calls = @ + 1]
  ELSE [p EXCEPT !.st = "done", !.res = "error", !.err = Message(e)]

\* catch (error): throw new Error(`Failed to ...: ${error.message}`)
PaymentCatch(p, e) ==
  [p EXCEPT !.st = "done", !.res = "error",
            !.err = (IF p.op = "createPayment" THEN "Failed to create Mercuryo payment: "
                     ELSE "Failed to get payment status: ") \o Message(e)]

\* The call fails.
PaymentFail(i, e) ==
  /\ pay[i].st = "flight"
  /\ pay' = [pay EXCEPT ![i] = PaymentCatch(@, e)]
  /\ UNCHANGED <<clientVars, singletonVars, wh, vs, mercuryoService>>

\* ---------------------------------------------------------- specification
\* One client as getInstance hands it out, used by concurrent requests: a
\* client initialised at time 0, or one handed out before it authenticated
\* (getInstance returns MarzbanService.instance, which a resetInstance during
\* a pending initialisation lets a later getInstance replace).
InitialClients ==
  { [c \in Clients |-> IF c = 1 THEN first ELSE NewClient] :
      first \in { NewClient,
                  [accessToken |-> 1, tokenExpiry |-> TOKEN_TTL, isInitialized |-> TRUE] } }

Init ==
  /\ now = 0
  /\ ticks = 0
  /\ clients \in InitialClients
  /\ threads = [t \in Threads |-> IdleThread]
  /\ fails = 0
  /\ unauth = 0
  /\ env = Settings
  /\ instance = 1
  /\ initPromise = Null
  /\ callers = [p \in Callers |-> IdleCaller]
  /\ resets = 0
  /\ wh = NoWebhook
  /\ vs = NoVerify
  /\ mercuryoService = Null
  /\ pay = [i \in Payers |-> IdlePayer]

Next ==
  \/ \E t \in Threads : RequestStart(t, 1)
  \/ \E t \in Threads : TokenOk(t)
  \/ \E t \in Threads : ApiOk(t)
  \/ \E t \in Threads : Unauthorized(t)
  \/ \E t \in Threads, e \in Failures : Fail(t, e)
  \/ \E t \in Threads : Wake(t)
  \/ \E d \in TickSteps : Tick(d)

Spec == Init /\ [][Next]_vars

\* getInstance and resetInstance called concurrently, from process start.
InitSingleton ==
  /\ now = 0
  /\ ticks = 0
  /\ clients = [c \in Clients |-> NewClient]
  /\ threads = [t \in Threads |-> IdleThread]
  /\ fails = 0
  /\ unauth = 0
  /\ env \in {Settings} \cup {Settings \ {s} : s \in PanelSettings}
  /\ instance = Null
  /\ initPromise = Null
  /\ callers = [p \in Callers |-> IdleCaller]
  /\ resets = 0
  /\ wh = NoWebhook
  /\ vs = NoVerify
  /\ mercuryoService = Null
  /\ pay = [i \in Payers |-> IdlePayer]

NextSingleton ==
  \/ \E p \in Callers : GetInstance(p)
  \/ ResetInstance
  \/ \E k \in Threads : InitReturn(k)
  \/ \E p \in Callers : OwnerResume(p)
  \/ \E p \in Callers : JoinedResume(p)
  \/ \E t \in Threads : TokenOk(t)
  \/ \E t \in Threads : Unauthorized(t)
  \/ \E t \in Threads, e \in Failures : Fail(t, e)
  \/ \E t \in Threads : Wake(t)

SpecSingleton == InitSingleton /\ [][NextSingleton]_vars

\* One settlement notification arrives and is parsed.
InitWebhook ==
  /\ now = 0
  /\ ticks = 0
  /\ clients = [c \in Clients |-> NewClient]
  /\ threads = [t \in Threads |-> IdleThread]
  /\ fails = 0
  /\ unauth = 0
  /\ env = Settings
  /\ instance = Null
  /\ initPromise = Null
  /\ callers = [p \in Callers |-> IdleCaller]
  /\ resets = 0
  /\ vs = NoVerify
  /\ mercuryoService = Null
  /\ pay = [i \in Payers |-> IdlePayer]
  /\ \E secret \in Keys, body \in Bodies :
       \E signature \in Signatures(body) :
         wh = [phase |-> "called", secret |-> secret, body |-> body,
               signature |-> signature, ops |-> <<>>, res |-> "none", err |-> "none",
               data |-> NoRecord]

NextWebhook == ParseWebhook

SpecWebhook == InitWebhook /\ [][NextWebhook]_vars

\* One signature is verified against one payload.
InitVerify ==
  /\ now = 0
  /\ ticks = 0
  /\ clients = [c \in Clients |-> NewClient]
  /\ threads = [t \in Threads |-> IdleThread]
  /\ fails = 0
  /\ unauth = 0
  /\ env = Settings
  /\ instance = Null
  /\ initPromise = Null
  /\ callers = [p \in Callers |-> IdleCaller]
  /\ resets = 0
  /\ wh = NoWebhook
  /\ mercuryoService = Null
  /\ pay = [i \in Payers |-> IdlePayer]
  /\ \E secret \in Keys, payload \in Payloads :
       \E signature \in Presented(secret, payload) :
         vs = [phase |-> "called", secret |-> secret, payload |-> payload,
               signature |-> signature, res |-> FALSE, steps |-> 0]

NextVerify == VerifySignature

\* The payment client is obtained and used by concurrent callers.
InitPayment ==
  /\ now = 0
  /\ ticks = 0
  /\ clients = [c \in Clients |-> NewClient]
  /\ threads = [t \in Threads |-> IdleThread]
  /\ fails = 0
  /\ unauth = 0
  /\ env \in {PanelSettings \cup m : m \in SUBSET MercuryoSettings}
  /\ instance = Null
  /\ initPromise = Null
  /\ callers = [p \in Callers |-> IdleCaller]
  /\ resets = 0
  /\ wh = NoWebhook
  /\ vs = NoVerify
  /\ mercuryoService = Null
  /\ pay = [i \in Payers |-> IdlePayer]

NextPayment ==
  \/ \E i \in Payers : GetMercuryoService(i)
  \/ \E i \in Payers : CreatePayment(i)
  \/ \E i \in Payers : GetPaymentStatus(i)
  \/ \E i \in Payers, d \in PaymentResponses : PaymentOk(i, d)
  \/ \E i \in Payers, e \in GatewayFailures : PaymentFail(i, e)

SpecPayment == InitPayment /\ [][NextPayment]_vars

\* One provisioning operation is called on the client.
OpFailures == Failures \cup {HttpError(409)}

NextOps ==
  \/ \E t \in Threads, args \in Arguments : OpStart(t, args)
  \/ \E t \in Threads : TokenOk(t)
  \/ \E t \in Threads : ApiOk(t)
  \/ \E t \in Threads : Unauthorized(t)
  \/ \E t \in Threads, e \in OpFailures : Fail(t, e)
  \/ \E t \in Threads : Wake(t)
  \/ \E d \in TickSteps : Tick(d)

SpecOps == Init /\ [][NextOps]_vars

\* Both clients are obtained in a process whose panel settings are
\* incomplete. No initialisation gets as far as a handshake then, so no call
\* of the panel client is ever in flight and the panel never answers.
InitConfig ==
  /\ now = 0
  /\ ticks = 0
  /\ clients = [c \in Clients |-> NewClient]
  /\ threads = [t \in Threads |-> IdleThread]
  /\ fails = 0
  /\ unauth = 0
  /\ env \in {e \in SUBSET Settings : ~(PanelSettings \subseteq e)}
  /\ instance = Null
  /\ initPromise = Null
  /\ callers = [p \in Callers |-> IdleCaller]
  /\ resets = 0
  /\ wh = NoWebhook
  /\ vs = NoVerify
  /\ mercuryoService = Null
  /\ pay = [i \in Payers |-> IdlePayer]

NextConfig ==
  \/ \E p \in Callers : GetInstance(p)
  \/ ResetInstance
  \/ \E p \in Callers : OwnerResume(p)
  \/ \E p \in Callers : JoinedResume(p)
  \/ NextPayment

SpecConfig == InitConfig /\ [][NextConfig]_vars

SpecVerify == InitVerify /\ [][NextVerify]_vars

\* ================================================================ claims
AuthFrames(t) == {i \in DOMAIN threads[t].stack : threads[t].stack[i].f = "auth"}

Authenticating(c) == {t \in Threads : threads[t].client = c /\ AuthFrames(t) # {}}

\* C1: with a valid configuration and no resetInstance, however many callers
\* ask for the instance while the first initialisation is pending, exactly
\* one run of authenticate executes for it, and every caller resolves to the
\* same client, which is initialized and holds a bearer credential.
C1_OneHandshake ==
  (PanelConfigured /\ resets = 0) =>
    \A k \in Threads :
      /\ threads[k].st # "idle" => threads[k].runs = 1
      /\ \A p \in Callers :
           (callers[p].prom = k /\ callers[p].res = "ok") =>
             /\ callers[p].value = k
             /\ clients[k].isInitialized
             /\ clients[k].accessToken # Null

\* C2: on one client at most one authentication handshake is in flight at
\* any moment: no two activities run authenticate at the same time.
C2_SingleFlight == \A c \in Clients : Cardinality(Authenticating(c)) <= 1

\* C3: a provisioning call answered 401 is re-authenticated and replayed
\* exactly once; a replay answered 401 again fails without another
\* re-authentication or replay.
C3_OneReplay ==
  \A t \in Threads : \A i \in DOMAIN threads[t].stack :
    LET h == threads[t].stack[i] IN
    (h.f = "http" /\ h.target = "api") =>
      /\ h.replays <= 1
      /\ h.replays = 1 => i = Len(threads[t].stack)

\* C4: one invocation of authenticate sends at most 3 token-exchange calls
\* in total, whatever the token endpoint answers (401 included), and fails
\* after the third failure with an error naming 3 attempts.
C4_AtMostThreeCalls ==
  \A t \in Threads :
    /\ \A i \in AuthFrames(t) : threads[t].stack[i].calls <= 3
    /\ threads[t].lastAuth.calls <= 3
    /\ threads[t].lastAuth.outcome = "failed" => threads[t].lastAuth.attempts = 3

\* The backoff schedule the claims state, in milliseconds.
Backoff(n) == [k \in 1..n |-> 1000 * 2 ^ (k - 1)]

\* C5 as stated: an authenticate run whose 3 attempts fail sleeps 1000, 2000
\* and 4000 ms and then raises an error citing 3 attempts.
C5_ThreeDelays ==
  \A t \in Threads :
    threads[t].lastAuth.outcome = "failed" =>
      /\ threads[t].lastAuth.delays = <<1000, 2000, 4000>>
      /\ threads[t].lastAuth.attempts = 3

\* C5 as amended: an authenticate run sleeps 1000 ms after its first failed
\* attempt and 2000 ms after its second, never after its third; the run
\* whose 3 attempts fail has slept exactly 1000 then 2000 ms and raises an
\* authentication error citing 3 attempts.
C5_TwoDelays ==
  \A t \in Threads :
    /\ threads[t].lastAuth.outcome = "failed" =>
         /\ threads[t].lastAuth.delays = <<1000, 2000>>
         /\ threads[t].lastAuth.attempts = 3
    /\ \A i \in AuthFrames(t) :
         LET a == threads[t].stack[i] IN
         /\ a.attempt <= 3
         /\ a.delays = Backoff(IF i = Len(threads[t].stack) THEN a.attempt ELSE a.attempt - 1)
         /\ Len(a.delays) <= 2
    /\ (threads[t].st = "done" /\ threads[t].err.attempts # 0) =>
         (threads[t].res = "error" /\ threads[t].err.attempts = 3)

C5_Witness ==
  \E t \in Threads :
    /\ threads[t].st = "done"
    /\ threads[t].lastAuth.outcome = "failed"
    /\ threads[t].lastAuth.delays = <<1000, 2000>>
    /\ threads[t].err.attempts = 3

\* The session is invalid when the credential is absent or the current time
\* is at or past the expiry instant.
Invalid(c, t) == c.accessToken = Null \/ t >= c.tokenExpiry

\* C6: a request that finds the session invalid at entry issues its first
\* provisioning call only after the authenticate run of ensureAuthenticated
\* has succeeded; if that run fails the request fails with no provisioning
\* call issued; and the first provisioning call is issued under a valid
\* session.
C6_EnsureBeforeCall ==
  \A t \in Threads :
    /\ (threads[t].apiCalls > 0 /\ ~threads[t].entryValid) => threads[t].ensured = "ok"
    /\ (threads[t].st # "idle" /\ ~threads[t].entryValid /\ threads[t].ensured = "none") =>
         /\ Len(threads[t].stack) >= 2
         /\ threads[t].stack[2].f = "auth"
         /\ threads[t].stack[2].by = "ensure"
    /\ threads[t].ensured = "failed" =>
         /\ threads[t].apiCalls = 0
         /\ threads[t].st = "done"
         /\ threads[t].res = "error"
    /\ threads[t].apiCalls > 0 => threads[t].firstValid

C6_Witness ==
  \E t, u \in Threads :
    /\ ~threads[t].entryValid /\ threads[t].ensured = "ok" /\ threads[t].apiCalls > 0
    /\ ~threads[u].entryValid /\ threads[u].ensured = "failed" /\ threads[u].st = "done"
    /\ now = 23 * 60 * 60 * 1000

\* A server error or a request timeout.
Transient(e) == e.status >= 500 \/ e = TimeoutError

\* C7: request goes to a further attempt only after a server error or a
\* timeout, makes at most 3 attempts with delays of 1000 then 2000 ms between
\* them, propagates any other failure at once and the third failure
\* unchanged, and returns a value only when its last attempt succeeded.
C7_RequestRetry ==
  \A t \in Threads :
    LET th == threads[t]
        backingOff == th.st = "run" /\ Top(th.stack).f = "request"
    IN
    /\ th.attempts <= 3
    /\ backingOff => (Transient(th.lastErr) /\ th.attempts < 3)
    /\ th.delays = Backoff(IF backingOff THEN th.attempts
                           ELSE IF th.attempts = 0 THEN 0 ELSE th.attempts - 1)
    /\ (th.st = "done" /\ th.attempts > 0 /\ th.res = "error") =>
         /\ th.err = th.lastErr
         /\ th.lastOutcome = "failed"
         /\ (~Transient(th.lastErr) \/ th.attempts = 3)
    /\ (th.st = "done" /\ th.res = "ok") => th.lastOutcome = "ok"
    /\ (th.st = "done" /\ th.lastOutcome = "failed") => th.res = "error"

C7_Witness ==
  \E t \in Threads :
    /\ threads[t].st = "done" /\ threads[t].res = "error"
    /\ threads[t].attempts = 3 /\ threads[t].delays = <<1000, 2000>>
    /\ threads[t].err = HttpError(500)

\* C8: a successful authenticate stores the credential the token exchange
\* returned and sets the expiry to the time of success plus 23 hours; the
\* session then stays valid while less than 23 hours have elapsed, and a
\* request that starts under a valid session starts no authenticate.
C8_SessionLifetime ==
  [][ /\ \A t \in Threads :
           TokenOk(t) =>
             LET c == threads[t].client IN
             /\ clients'[c].accessToken = NextToken(clients[c].accessToken)
             /\ clients'[c].accessToken # Null
             /\ clients'[c].tokenExpiry = now + 23 * 60 * 60 * 1000
             /\ ~Invalid(clients'[c], now')
      /\ \A c \in Clients :
           (~Invalid(clients[c], now) /\ now' < clients[c].tokenExpiry) =>
             ~Invalid(clients'[c], now')
      /\ \A t \in Threads :
           (RequestStart(t, 1) /\ ~Invalid(clients[1], now)) =>
             /\ threads'[t].runs = 0
             /\ AuthFrames(t)' = {}
             /\ Top(threads'[t].stack).target = "api"
    ]_vars

C8_Witness ==
  \E t, u \in Threads :
    /\ threads[u].ensured = "ok"
    /\ clients[1].tokenExpiry = 23 * 60 * 60 * 1000
    /\ now = 23 * 60 * 60 * 1000 - 1
    /\ threads[t].st = "run" /\ threads[t].entryValid /\ threads[t].runs = 0

\* C9: the credential and the expiry instant change only in the step in
\* which an authenticate run on that client succeeds, and that step assigns
\* both; no request step, retry step or 401 handler step changes either.
C9_OnlyAuthenticate ==
  [][ \A c \in Clients :
        (\/ clients'[c].accessToken # clients[c].accessToken
         \/ clients'[c].tokenExpiry # clients[c].tokenExpiry) =>
          /\ \E t \in Threads : threads[t].client = c /\ TokenOk(t)
          /\ clients'[c].accessToken # clients[c].accessToken
          /\ clients'[c].tokenExpiry = now + 23 * 60 * 60 * 1000
    ]_vars

C9_Witness ==
  \E t \in Threads :
    /\ threads[t].lastAuth.outcome = "ok"
    /\ threads[t].lastAuth.by = "interceptor"
    /\ clients[1].accessToken = 2
    /\ clients[1].tokenExpiry = now + 23 * 60 * 60 * 1000
    /\ now > 0

\* The signature presented is the hex HMAC of the payload under the secret.
Matches == wh.signature = DigestHex(HmacSha256(wh.secret, Payload(wh.body)))

Decodes(ops) == \E i \in DOMAIN ops : ops[i] = "parse"

\* C10: parseWebhook fails closed: with a signature that does not verify it
\* raises the signature error and never decodes the body, whatever the body
\* is; it decodes only after verification has succeeded; and what it returns
\* under a matching signature is the body's record, field for field.
C10_FailClosed ==
  wh.phase = "done" =>
    /\ ~Matches =>
         /\ wh.res = "error"
         /\ wh.err = "Invalid webhook signature"
         /\ ~Decodes(wh.ops)
    /\ \A i \in DOMAIN wh.ops :
         wh.ops[i] = "parse" => (Matches /\ \E j \in 1..(i - 1) : wh.ops[j] = "verify")
    /\ wh.res = "ok" =>
         /\ Matches
         /\ IF wh.body.isString
            THEN JsonStringify(wh.data) = wh.body.text
            ELSE wh.data = wh.body.obj

C10_Witness ==
  /\ wh.phase = "done"
  /\ ~Matches
  /\ wh.signature # <<>>
  /\ wh.body.isString
  /\ JsonParse(wh.body.text).ok
  /\ wh.res = "error"

\* The signature verifyWebhookSignature expects for a payload.
Expected(secret, payload) == DigestHex(HmacSha256(secret, payload))

Accepts(secret, payload, signature) ==
  \E r \in VerifyRun(secret, payload, signature) : r.eq

\* C11 as stated: the result is true exactly when the signature is the hex
\* HMAC of the payload, and from a matching pair every other signature and
\* every other payload is rejected.
C11_AnyChangeRejected ==
  vs.phase = "done" =>
    /\ vs.res = (vs.signature = Expected(vs.secret, vs.payload))
    /\ vs.res =>
         /\ \A s2 \in Presented(vs.secret, vs.payload) :
              s2 # vs.signature => ~Accepts(vs.secret, vs.payload, s2)
         /\ \A p2 \in Payloads :
              p2 # vs.payload => ~Accepts(vs.secret, p2, vs.signature)

\* C11: verifyWebhookSignature returns true exactly when the signature is
\* the hex HMAC of the payload's UTF-8 encoding under the webhook secret;
\* from a matching pair every other signature is rejected, and so is every
\* payload whose UTF-8 encoding differs.
C11_VerifyIffHmac ==
  vs.phase = "done" =>
    /\ vs.res = (vs.signature = Expected(vs.secret, vs.payload))
    /\ vs.res =>
         /\ \A s2 \in Presented(vs.secret, vs.payload) :
              s2 # vs.signature => ~Accepts(vs.secret, vs.payload, s2)
         /\ \A p2 \in Payloads :
              Utf8(p2) # Utf8(vs.payload) => ~Accepts(vs.secret, p2, vs.signature)

C11_Witness ==
  /\ vs.phase = "done"
  /\ vs.res
  /\ Len(vs.payload) = MaxPayload
  /\ \E i \in DOMAIN vs.payload : vs.payload[i] \in Surrogates

\* C20: the number of comparison steps verifyWebhookSignature takes on a
\* signature of the right length does not depend on where the signature
\* first differs from the computed one.
C20_ConstantTime ==
  (vs.phase = "done" /\ Len(vs.signature) = Len(Expected(vs.secret, vs.payload))) =>
    vs.steps = Len(vs.signature)

\* C14: createPayment and getPaymentStatus send exactly one HTTP call per
\* invocation whatever the outcome: a failure (a 5xx and a timeout included)
\* is raised to the caller with no second call, and on success the
\* gateway's response is returned.
C14_SingleCall ==
  \A i \in Payers :
    pay[i].op \in {"createPayment", "getPaymentStatus"} =>
      /\ pay[i].calls = 1
      /\ pay[i].st \in {"flight", "done"}
      /\ pay[i].res = "ok" => (pay[i].st = "done" /\ pay[i].value = pay[i].answer)
      /\ pay[i].res = "error" =>
           /\ pay[i].st = "done"
           /\ pay[i].value = Null
           /\ \E e \in GatewayFailures : pay[i].err = PaymentCatch(pay[i], e).err

C14_Witness ==
  \E i, j \in Payers :
    /\ pay[i].op = "createPayment" /\ pay[i].res = "error"
    /\ pay[i].err = "Failed to create Mercuryo payment: 500"
    /\ pay[j].op = "getPaymentStatus" /\ pay[j].res = "error"
    /\ pay[j].err = "Failed to get payment status: ECONNABORTED"

\* C15: with a required setting absent, obtaining the client fails with the
\* configuration error: no client instance becomes available, no handshake
\* or other network call is made, and the error comes from obtaining the
\* client, never from a later operation on it.
C15_ConfigError ==
  /\ (\E x \in PanelSettings : x \notin env) =>
       /\ instance = Null
       /\ \A k \in Threads :
            /\ threads[k].stack = <<>>
            /\ threads[k].runs = 0
            /\ threads[k].apiCalls = 0
            /\ threads[k].st = "done" =>
                 (threads[k].res = "error" /\ threads[k].err = ConfigError)
       /\ \A p \in Callers :
            callers[p].pc = "done" => (callers[p].res = "error" /\ callers[p].value = Null)
  /\ (\E x \in MercuryoSettings : x \notin env) =>
       /\ mercuryoService = Null
       /\ \A i \in Payers :
            /\ pay[i].svc = Null
            /\ pay[i].calls = 0
            /\ pay[i].st = "done" =>
                 /\ pay[i].op = "getMercuryoService"
                 /\ pay[i].res = "error"
                 /\ pay[i].err = "Mercuryo configuration is missing"

C15_Witness ==
  /\ env = Settings \ {"MARZBAN_PASSWORD", "MERCURYO_SECRET"}
  /\ \E p, q \in Callers :
       /\ p # q
       /\ callers[p].pc = "done" /\ callers[p].res = "error"
       /\ callers[q].pc = "done" /\ callers[q].res = "error"
  /\ \E i \in Payers : pay[i].st = "done" /\ pay[i].res = "error"

\* A getInstance call that has completed successfully, with no resetInstance
\* since.
Completed(q) ==
  callers[q].pc = "done" /\ callers[q].res = "ok" /\ callers[q].epoch = resets

\* C16: once a getInstance call has completed successfully, every later call
\* returns that same client at once and starts no handshake, until
\* resetInstance is called; the first getInstance after a resetInstance
\* constructs a new client and starts a new handshake.
C16_StableUntilReset ==
  [][ \A p \in Callers :
        (callers[p].pc = "idle" /\ callers'[p].pc # "idle") =>
          /\ \A q \in Callers :
               Completed(q) =>
                 /\ callers'[p].pc = "done"
                 /\ callers'[p].res = "ok"
                 /\ callers'[p].value = callers[q].value
                 /\ threads' = threads
          /\ (resets > 0 /\ instance = Null /\ initPromise = Null /\ PanelConfigured) =>
               /\ instance' # Null
               /\ clients[instance'] = NewClient
               /\ threads[instance'].st = "idle"
               /\ threads'[instance'].runs = 1
               /\ threads'[instance'].st = "run"
               /\ Top(threads'[instance'].stack).target = "token" ]_vars

\* The activities that run a given provisioning operation.
Running(op) == {t \in Threads : threads[t].args.op = op}

\* The remote call under the operation succeeded.
Fetched(t) == threads[t].lastOutcome = "ok"

\* C12 as stated: getOrCreateUser calls createUser at most once, and as soon
\* as the remote has answered the fetch with a failure (a 5xx or a timeout
\* included) createUser is called: the GET is not sent again.
C12_NoFurtherGet ==
  \A t \in Running("getOrCreateUser") :
    /\ threads[t].creates <= 1
    /\ threads[t].creates = 0 => threads[t].lastOutcome # "failed"

\* C12: getOrCreateUser returns the fetched account without calling
\* createUser when getUser succeeds; when getUser fails, for whatever reason
\* (after the attempts request() makes of the GET), it calls createUser
\* exactly once and returns its result or propagates its failure, and sends
\* no GET after getUser has failed.
C12_CreateOnce ==
  \A t \in Running("getOrCreateUser") :
    LET th == threads[t] IN
    /\ th.creates <= 1
    /\ th.creates = 0 =>
         /\ th.fetch = NoFetch
         /\ th.st = "done" =>
              (th.res = "ok" /\ Fetched(t) /\ th.out = AccountOut(th.answer) /\ th.gets >= 1)
    /\ th.creates = 1 =>
         /\ th.fetch.err # NoErr
         /\ th.gets = th.fetch.gets
         /\ th.st = "done" =>
              \/ th.res = "ok" /\ Fetched(t) /\ th.out = AccountOut(th.answer)
              \/ /\ th.res = "error" /\ ~Fetched(t)
                 /\ th.err = WrappedError("Failed to create Marzban user: " \o Message(th.lastErr))
              \/ /\ th.res = "error" /\ th.ensured = "failed"
                 /\ th.err = WrappedError("Failed to create Marzban user: auth-failed")

C12_Witness ==
  \E t \in Running("getOrCreateUser") :
    /\ threads[t].st = "done" /\ threads[t].res = "ok"
    /\ threads[t].creates = 1
    /\ threads[t].fetch.err = WrappedError("Failed to get Marzban user: 500")
    /\ threads[t].fetch.gets = MAX_RETRIES
    /\ threads[t].apiCalls = 1

\* C13: userExists returns true exactly when the fetch of the account
\* succeeds and false for every failure of it; it never raises, and what the
\* caller gets for a failure is the same whatever the cause.
C13_UserExists ==
  \A t \in Running("userExists") :
    threads[t].st = "done" =>
      /\ threads[t].res = "ok"
      /\ threads[t].err = NoErr
      /\ threads[t].out = BoolOut(Fetched(t))

C13_Witness ==
  \E t \in Running("userExists") :
    /\ threads[t].st = "done"
    /\ threads[t].out = BoolOut(FALSE)
    /\ threads[t].lastErr = NetworkError

\* The operations that rethrow.
Rethrowing ==
  {"createUser", "updateUser", "getUser", "deleteUser", "extendSubscription",
   "getVlessConfig"}

\* C17: createUser, updateUser, getUser, deleteUser, extendSubscription and
\* getVlessConfig return no value when the remote call under them failed:
\* each raises an error then (a 409 on createUser and a 404 on deleteUser
\* included), and returns only after the call succeeded.
C17_NoSilentDefault ==
  \A op \in Rethrowing : \A t \in Running(op) :
    threads[t].st = "done" =>
      /\ ~Fetched(t) =>
           /\ threads[t].res = "error"
           /\ threads[t].out.kind = "error"
           /\ threads[t].out.err = threads[t].err
           /\ threads[t].err.code = "Error"
      /\ threads[t].res = "ok" => Fetched(t)

C17_Witness ==
  \E t \in Running("createUser") :
    /\ threads[t].st = "done"
    /\ threads[t].res = "error"
    /\ threads[t].lastErr = HttpError(409)
    /\ threads[t].err = WrappedError("Failed to create Marzban user: 409")

\* C18: getUser turns a 404 answer into the not-found error, which differs
\* from the error it raises for every other failure, and a 404 is never
\* retried.
C18_NotFoundDistinct ==
  \A t \in Running("getUser") :
    LET th == threads[t]
        notFound == WrappedError("Marzban user not found: " \o th.args.username)
    IN /\ th.lastErr.status = 404 =>
            /\ th.st = "done"
            /\ th.res = "error"
            /\ th.err = notFound
       /\ (th.st = "done" /\ th.res = "error" /\ th.lastErr.status # 404) =>
            /\ th.err # notFound
            /\ \/ th.err = WrappedError("Failed to get Marzban user: " \o Message(th.lastErr))
               \/ th.err = WrappedError("Failed to get Marzban user: auth-failed")

C18_Witness ==
  \E t \in Running("getUser") :
    /\ threads[t].st = "done"
    /\ threads[t].lastErr = HttpError(404)
    /\ threads[t].attempts = 2
    /\ threads[t].err = WrappedError("Marzban user not found: bob")

\* The URI the specification quotes for alice, with the username left open.
QuotedUri(username) ==
  "vless://abc-123@vpn.example.com:443?encryption=none&flow=xtls-rprx-vision&security=tls&sni=vpn.example.com&type=tcp&headerType=none#"
    \o username

\* C19: getVlessConfig returns exactly the quoted URI for an account whose
\* proxy identity is abc-123, and fails with an error, returning no URI,
\* when the account has no proxy identity or the fetch fails.
C19_VlessUri ==
  \A t \in Running("getVlessConfig") :
    LET th == threads[t] IN
    th.st = "done" =>
      IF Fetched(t) /\ th.answer.id = "abc-123"
      THEN th.res = "ok" /\ th.out = UrlOut(QuotedUri(th.args.username))
      ELSE /\ th.res = "error"
           /\ th.out.kind = "error"
           /\ th.out.url = ""
           /\ Fetched(t) =>
                th.err = WrappedError("Failed to get VLESS config: VLESS ID not found for user")

C19_Witness ==
  \E t \in Running("getVlessConfig") :
    /\ threads[t].st = "done"
    /\ threads[t].res = "ok"
    /\ threads[t].args.username = "alice"
    /\ threads[t].out.url = "vless://abc-123@vpn.example.com:443?encryption=none&flow=xtls-rprx-vision&security=tls&sni=vpn.example.com&type=tcp&headerType=none#alice"

\* ---------------------------------------------- what getInstance resolves to
\* The value is a client that has completed its initialisation.
Initialized(v) ==
  /\ v # Null
  /\ clients[v].isInitialized
  /\ clients[v].accessToken # Null

\* C21: every value a getInstance call resolves to is a client that has
\* completed initialisation (isInitialized is true and its credential is
\* non-null), whatever the interleaving of getInstance and resetInstance
\* calls, a resetInstance during a pending initialisation included.
C21_ResolvesInitialized ==
  \A p \in Callers :
    (callers[p].pc = "done" /\ callers[p].res = "ok") => Initialized(callers[p].value)

\* ------------------------------------------------ a failed initialisation
\* The caller that started initialisation k has resumed from its await (and
\* its finally block has run).
Delivered(k) == \A q \in Callers : ~(callers[q].pc = "owner" /\ callers[q].prom = k)

\* The getInstance call of p was made after initialisation k had failed.
Later(p, k) == k \in callers[p].failed

\* Every caller that awaited the failed initialisation got its failure.
WaitersReceiveFailure ==
  \A k \in Threads, p \in Callers :
    (FailedInit(k) /\ callers[p].pc = "done" /\ callers[p].prom = k)
      => callers[p].res = "error"

\* After a failed initialisation no later call fulfils with anything but an
\* initialized client.
NoUninitializedLater ==
  \A k \in Threads, p \in Callers :
    (FailedInit(k) /\ Later(p, k) /\ callers[p].pc = "done" /\ callers[p].res = "ok")
      => Initialized(callers[p].value)

\* The first getInstance call after the failure was delivered constructs a
\* new client and sends its token exchange.
FreshAfterFailure ==
  \A k \in Threads, p \in Callers :
    (/\ FailedInit(k) /\ Delivered(k) /\ instance = k
     /\ callers[p].pc = "idle" /\ callers'[p].pc # "idle")
      => /\ callers'[p].pc = "owner"
         /\ callers'[p].prom # k
         /\ initPromise' = callers'[p].prom
         /\ instance' = callers'[p].prom
         /\ clients[instance'] = NewClient
         /\ threads'[instance'].st = "run"
         /\ threads'[instance'].runs = 1
         /\ Top(threads'[instance'].stack).target = "token"

\* C22: when the initial authentication fails after its attempts are
\* exhausted, every getInstance caller that awaited that initialisation
\* receives the failure, no later getInstance returns an uninitialized
\* client, and the next getInstance call starts a fresh initialisation with
\* a new handshake.
C22_FailureNotCached ==
  /\ [](WaitersReceiveFailure /\ NoUninitializedLater)
  /\ [][FreshAfterFailure]_vars

\* ------------------------------------------------ a failed authenticate run
\* C23: an authenticate run that fails (all attempts exhausted) leaves the
\* session unchanged: the credential and the expiry instant are what they
\* were before the run, so a session that was absent or expired stays
\* invalid and the next request calls authenticate again.
C23_FailedRunKeepsSession ==
  \A t \in Threads :
    threads[t].lastAuth.outcome = "failed" =>
      /\ threads[t].lastAuth.kept
      /\ threads[t].lastAuth.by = "ensure" => threads[t].lastAuth.invalid
====
